---- MODULE Spec2Model ----
(***************************************************************************)
(* ipstore: a key/value store keyed by IP addresses and CIDR prefixes.     *)
(* Store[V] wraps one bart.Table[entry[V]] behind a sync.RWMutex.  Every   *)
(* public method takes the lock, makes one table call and returns.  Spec   *)
(* runs the methods one after the other, each as one step; SpecC runs them *)
(* from several goroutines, each method as its lock and table calls.       *)
(*                                                                         *)
(* Addresses are scaled down: an IPv4 address has Bits4 bits and an IPv6   *)
(* address Bits6 bits (32 and 128 in net/netip).                           *)
(***************************************************************************)
EXTENDS Integers, Sequences, FiniteSets, TLC

\* ------------------------------------------------------------- bounds
Bits4 == 1
Bits6 == 2
MaxEntries == 3
Goroutines == 2

\* ------------------------------------------------------------- keys
\* zero[V](): the zero value of the element type (V = string in the tests).
Zero == ""

\* The values callers store: the zero value and a non-zero one.
Values == {Zero, "a"}

\* netip.Addr.BitLen: 0 for the zero Addr, else the width of the family.
BitLen(fam) == IF fam = "v4" THEN Bits4 ELSE IF fam = "v6" THEN Bits6 ELSE 0

\* The zero netip.Addr (IsValid() = false).
ZeroAddr == [fam |-> "z0", bits |-> 0]

ValidAddrs ==
    [fam : {"v4"}, bits : 0 .. (2 ^ Bits4 - 1)] \cup
    [fam : {"v6"}, bits : 0 .. (2 ^ Bits6 - 1)]

\* Every netip.Addr a caller can pass.
Addrs == ValidAddrs \cup {ZeroAddr}

\* The zero netip.Prefix (IsValid() = false).
InvalidPrefix == [fam |-> "z0", bits |-> 0, len |-> -1]

\* Valid prefixes as callers pass them: host bits are not necessarily zero.
ValidPrefixes ==
    UNION {{[fam |-> a.fam, bits |-> a.bits, len |-> l] : l \in 0 .. BitLen(a.fam)} :
              a \in ValidAddrs}

\* Every netip.Prefix a caller can pass.
Prefixes == ValidPrefixes \cup {InvalidPrefix}

\* netip.Prefix.IsValid
IsValid(p) == p.fam \in {"v4", "v6"} /\ p.len >= 0 /\ p.len <= BitLen(p.fam)

\* netip.Prefix.Masked: the prefix with its host bits zeroed.
Masked(p) ==
    LET host == 2 ^ (BitLen(p.fam) - p.len)
    IN  [p EXCEPT !.bits = (p.bits \div host) * host]

\* key.Prefix(key.BitLen()) of Add and Remove: the full-length prefix of an
\* address.  The zero Addr gives the zero Prefix and a nil error; the error
\* return is for a bit count outside [0, BitLen], which BitLen never is.
AddrPrefix(key) ==
    IF key.fam = "z0"
    THEN [prf |-> InvalidPrefix, err |-> "nil"]
    ELSE [prf |-> Masked([fam |-> key.fam, bits |-> key.bits,
                          len |-> BitLen(key.fam)]),
          err |-> "nil"]

\* A cover that compares the leading bits and not the family.
CoversAnyFamily(q, p) ==
    /\ q.len <= p.len
    /\ p.bits \div (2 ^ (BitLen(p.fam) - q.len)) =
       q.bits \div (2 ^ (BitLen(q.fam) - q.len))

\* The stored (masked) prefix q covers p: same family, q no longer than p, and
\* p cut to q's length is q.
Covers(q, p) ==
    /\ q.fam = p.fam
    /\ q.len <= p.len
    /\ Masked([p EXCEPT !.len = q.len]).bits = q.bits

\* ------------------------------------------------------------- the table
\* bart.Table[entry[V]]: the stored prefixes with their entries, and the
\* count of stored prefixes, kept incrementally.
EmptyTable == [entries |-> [p \in {} |-> [value |-> Zero]], size |-> 0]

Stored(tbl) == DOMAIN tbl.entries

\* table.Insert(pfx, val): an invalid prefix is ignored; the prefix is
\* masked; a stored prefix has its value replaced, a new one is counted.
TableInsert(tbl, pfx, val) ==
    IF ~IsValid(pfx) THEN tbl
    ELSE LET p == Masked(pfx)
         IN  [entries |-> [q \in Stored(tbl) \cup {p} |->
                              IF q = p THEN val ELSE tbl.entries[q]],
              size |-> IF p \in Stored(tbl) THEN tbl.size ELSE tbl.size + 1]

\* A delete that removes the longest stored prefix covering pfx.
TableGetAndDeleteLongestMatch(tbl, pfx) ==
    LET S == IF IsValid(pfx) THEN {q \in Stored(tbl) : Covers(q, Masked(pfx))} ELSE {}
    IN  IF S = {} THEN [table |-> tbl, val |-> [value |-> Zero], ok |-> FALSE]
        ELSE LET p == CHOOSE q \in S : \A r \in S : r.len <= q.len
             IN  [table |-> [entries |-> [q \in Stored(tbl) \ {p} |-> tbl.entries[q]],
                             size |-> tbl.size - 1],
                  val |-> tbl.entries[p],
                  ok |-> TRUE]

\* table.GetAndDelete(pfx): exact match on the masked prefix.
TableGetAndDelete(tbl, pfx) ==
    IF ~IsValid(pfx) \/ Masked(pfx) \notin Stored(tbl)
    THEN [table |-> tbl, val |-> [value |-> Zero], ok |-> FALSE]
    ELSE LET p == Masked(pfx)
         IN  [table |-> [entries |-> [q \in Stored(tbl) \ {p} |-> tbl.entries[q]],
                         size |-> tbl.size - 1],
              val |-> tbl.entries[p],
              ok |-> TRUE]

\* The stored prefixes covering pfx (pfx itself or broader).
Covering(tbl, pfx) == {q \in Stored(tbl) : Covers(q, pfx)}

\* The longest of a non-empty set of prefixes covering one key.
Longest(S) == CHOOSE q \in S : \A r \in S : r.len <= q.len

\* A lookup that returns the shortest covering prefix's entry.
TableLookupPrefixShortest(tbl, pfx) ==
    IF ~IsValid(pfx) \/ Covering(tbl, Masked(pfx)) = {}
    THEN [val |-> [value |-> Zero], ok |-> FALSE]
    ELSE LET S == Covering(tbl, Masked(pfx))
         IN  [val |-> tbl.entries[CHOOSE q \in S : \A r \in S : q.len <= r.len],
              ok |-> TRUE]

\* table.LookupPrefix(pfx): longest-prefix match for a prefix.
TableLookupPrefix(tbl, pfx) ==
    IF ~IsValid(pfx) \/ Covering(tbl, Masked(pfx)) = {}
    THEN [val |-> [value |-> Zero], ok |-> FALSE]
    ELSE [val |-> tbl.entries[Longest(Covering(tbl, Masked(pfx)))], ok |-> TRUE]

\* table.Lookup(ip): longest-prefix match for an address.
TableLookup(tbl, ip) ==
    IF ip.fam = "z0" THEN [val |-> [value |-> Zero], ok |-> FALSE]
    ELSE TableLookupPrefix(tbl, AddrPrefix(ip).prf)

\* table.Size()
TableSize(tbl) == tbl.size

\* ------------------------------------------------------------- state
VARIABLES
    table,  \* Store.table
    last,   \* the last completed call: its name, whether its key's prefix was
            \* stored when it started, and what it returned
    mu,     \* Store.RWMutex
    proc    \* the call each goroutine is in and how far it has got

vars == <<table, last, mu, proc>>

\* The goroutines calling into one Store.
Callers == 1 .. Goroutines

\* No goroutine.
None == 0

\* The zero sync.RWMutex: w is the goroutine that owns the writer side (it
\* waits for the active readers to leave, then holds the lock), locked says
\* that it holds it, active are the goroutines holding a read lock, blocked
\* the readers parked until the writer unlocks.
FreeMutex == [w |-> None, locked |-> FALSE, active |-> {}, blocked |-> {}]

\* A goroutine that is in no call.  In a call, pc is the statement of the
\* method it is at, in says that it is inside that statement (waiting in Lock
\* or RLock, or inside the table call), raced that its table call overlapped
\* a conflicting one, and ret is what the method is about to return.
Idle == [op |-> "idle", key |-> [fam |-> "none"], value |-> Zero, pc |-> 0,
         in |-> FALSE, raced |-> FALSE, ret |-> [result |-> <<>>, err |-> "nil"]]

\* What a call leaves in last.
Call(op, hit, result, err) ==
    [op |-> op, hit |-> hit, result |-> result, err |-> err]

\* The prefix pfx is a stored key of tbl.
Has(tbl, pfx) == IsValid(pfx) /\ Masked(pfx) \in Stored(tbl)

\* New()
Init ==
    /\ table = EmptyTable
    /\ last = Call("New", FALSE, <<>>, "nil")
    /\ mu = FreeMutex
    /\ proc = [t \in Callers |-> Idle]

\* ------------------------------------------------------------- handlers
\* An AddCIDR that inserts an entry whose value was never set.
AddCIDRRetZeroEntry(tbl, key, value) ==
    [table |-> TableInsert(tbl, key, [value |-> Zero]), err |-> "nil"]

\* An AddCIDR that leaves a prefix that is already stored as it is.
AddCIDRRetNoOverwrite(tbl, key, value) ==
    [table |-> IF IsValid(key) /\ Masked(key) \in Stored(tbl) THEN tbl
               ELSE TableInsert(tbl, key, [value |-> value]),
     err |-> "nil"]

\* An AddCIDR that counts every insertion as a new prefix.
AddCIDRRetCountsAgain(tbl, key, value) ==
    LET t == TableInsert(tbl, key, [value |-> value])
    IN  [table |-> IF IsValid(key) THEN [t EXCEPT !.size = tbl.size + 1] ELSE t,
         err |-> "nil"]

\* An AddCIDR that stores the prefix as written, host bits included.
AddCIDRRetUnmasked(tbl, key, value) ==
    [table |-> IF ~IsValid(key) THEN tbl
               ELSE [entries |-> [q \in Stored(tbl) \cup {key} |->
                                     IF q = key THEN [value |-> value] ELSE tbl.entries[q]],
                     size |-> IF key \in Stored(tbl) THEN tbl.size ELSE tbl.size + 1],
     err |-> "nil"]

\* Store.AddCIDR: Lock; table.Insert(key, entry{value}); return nil.
AddCIDRRet(tbl, key, value) ==
    [table |-> TableInsert(tbl, key, [value |-> value]), err |-> "nil"]

\* An Add that takes the IPv4 width as the prefix length of every address.
AddRetFixedLength(tbl, key, value) ==
    IF key.fam = "z0" THEN AddCIDRRet(tbl, InvalidPrefix, value)
    ELSE AddCIDRRet(tbl, [fam |-> key.fam, bits |-> key.bits, len |-> Bits4], value)

\* Store.Add: the full-length prefix of key, then AddCIDR.
AddRet(tbl, key, value) ==
    LET r == AddrPrefix(key)
    IN  IF r.err # "nil" THEN [table |-> tbl, err |-> r.err]
        ELSE AddCIDRRet(tbl, r.prf, value)

\* The well-formed literals AddIPOrCIDR is given: a bare address or a CIDR.
Literals == ValidAddrs \cup ValidPrefixes

\* Store.AddIPOrCIDR: "TODO: implementation"; nothing is parsed, locked or
\* stored, and the error is nil.
AddIPOrCIDRRet(tbl, ipOrCIDR, value) == [table |-> tbl, err |-> "nil"]

\* A RemoveCIDR that reads the entry and leaves it in the table.
RemoveCIDRRetNoDelete(tbl, key) ==
    LET r == TableGetAndDelete(tbl, key)
    IN  IF ~r.ok THEN [table |-> tbl, result |-> Zero, err |-> "nil"]
        ELSE [table |-> tbl, result |-> r.val.value, err |-> "nil"]

\* A RemoveCIDR that removes the longest stored prefix covering key.
RemoveCIDRRetLongestMatch(tbl, key) ==
    LET r == TableGetAndDeleteLongestMatch(tbl, key)
    IN  IF ~r.ok THEN [table |-> r.table, result |-> Zero, err |-> "nil"]
        ELSE [table |-> r.table, result |-> r.val.value, err |-> "nil"]

\* A RemoveCIDR that returns the zero value for the entry it removed.
RemoveCIDRRetZeroResult(tbl, key) ==
    LET r == TableGetAndDelete(tbl, key)
    IN  [table |-> r.table, result |-> Zero, err |-> "nil"]

\* A RemoveCIDR that also drops the stored subnets of the removed prefix.
RemoveCIDRRetPrunesSubnets(tbl, key) ==
    LET r == TableGetAndDelete(tbl, key)
        keep == {q \in Stored(r.table) : ~Covers(Masked(key), q)}
    IN  IF ~r.ok THEN [table |-> r.table, result |-> Zero, err |-> "nil"]
        ELSE [table |-> [entries |-> [q \in keep |-> r.table.entries[q]],
                         size |-> Cardinality(keep)],
              result |-> r.val.value, err |-> "nil"]

\* A RemoveCIDR that reports a key that is not stored as an error.
RemoveCIDRRetNotFoundError(tbl, key) ==
    LET r == TableGetAndDelete(tbl, key)
    IN  IF ~r.ok THEN [table |-> r.table, result |-> Zero, err |-> "not found"]
        ELSE [table |-> r.table, result |-> r.val.value, err |-> "nil"]

\* Store.RemoveCIDR: Lock; table.GetAndDelete(key); the zero value and a nil
\* error when nothing was stored under key, else the removed value.
RemoveCIDRRet(tbl, key) ==
    LET r == TableGetAndDelete(tbl, key)
    IN  IF ~r.ok THEN [table |-> r.table, result |-> Zero, err |-> "nil"]
        ELSE [table |-> r.table, result |-> r.val.value, err |-> "nil"]

\* The nil interface value RemoveIPOrCIDR returns; it is no value of V.
NilAny == "<nil>"

\* Store.RemoveIPOrCIDR: "TODO: implementation"; nothing is parsed, locked or
\* removed, and it returns a nil value and a nil error.
RemoveIPOrCIDRRet(tbl, ipOrCIDR, value) ==
    [table |-> tbl, result |-> NilAny, err |-> "nil"]

\* Store.Remove: the full-length prefix of key, then RemoveCIDR.
RemoveRet(tbl, key) ==
    LET r == AddrPrefix(key)
    IN  IF r.err # "nil" THEN [table |-> tbl, result |-> Zero, err |-> r.err]
        ELSE RemoveCIDRRet(tbl, r.prf)

\* A Contains that is true only for an address stored under its own
\* full-length prefix.
ContainsRetExactMatch(tbl, ip) ==
    [result |-> Has(tbl, AddrPrefix(ip).prf), err |-> "nil"]

\* Store.Contains: RLock; table.Lookup(ip); its ok flag.
ContainsRet(tbl, ip) ==
    [result |-> TableLookup(tbl, ip).ok, err |-> "nil"]

\* A Get that returns the broadest covering entry instead of the longest.
GetRetBroadest(tbl, key) ==
    LET r == IF key.fam = "z0" THEN [val |-> [value |-> Zero], ok |-> FALSE]
             ELSE TableLookupPrefixShortest(tbl, AddrPrefix(key).prf)
    IN  IF ~r.ok THEN [result |-> <<>>, err |-> "nil"]
        ELSE [result |-> <<r.val.value>>, err |-> "nil"]

\* A Get that returns the zero value in place of the matched entry's value.
GetRetZeroValue(tbl, key) ==
    LET r == TableLookup(tbl, key)
    IN  IF ~r.ok THEN [result |-> <<>>, err |-> "nil"]
        ELSE [result |-> <<Zero>>, err |-> "nil"]

\* A Get that reports an address nothing covers as an error.
GetRetNotFoundError(tbl, key) ==
    LET r == TableLookup(tbl, key)
    IN  IF ~r.ok THEN [result |-> <<>>, err |-> "not found"]
        ELSE [result |-> <<r.val.value>>, err |-> "nil"]

\* A Get that takes a stored zero value for the absence of an entry.
GetRetDropsZero(tbl, key) ==
    LET r == TableLookup(tbl, key)
    IN  IF ~r.ok \/ r.val.value = Zero THEN [result |-> <<>>, err |-> "nil"]
        ELSE [result |-> <<r.val.value>>, err |-> "nil"]

\* Store.Get: RLock; table.Lookup(key); nil when nothing matched, else the one
\* matched value.
GetRet(tbl, key) ==
    LET r == TableLookup(tbl, key)
    IN  IF ~r.ok THEN [result |-> <<>>, err |-> "nil"]
        ELSE [result |-> <<r.val.value>>, err |-> "nil"]

\* GetOne(address), which the tests call and ipstore.go does not define: the
\* value of the longest stored prefix covering the address and a presence
\* flag, the zero value and false when nothing covers it.
GetOneRet(tbl, key) ==
    LET r == TableLookup(tbl, key)
    IN  IF ~r.ok THEN [result |-> Zero, ok |-> FALSE]
        ELSE [result |-> r.val.value, ok |-> TRUE]

\* A GetCIDR that looks up the address of key and not the prefix.
GetCIDRRetByAddr(tbl, key) ==
    LET r == IF IsValid(key) THEN TableLookup(tbl, [fam |-> key.fam, bits |-> key.bits])
             ELSE [val |-> [value |-> Zero], ok |-> FALSE]
    IN  IF ~r.ok THEN [result |-> <<>>, err |-> "nil"]
        ELSE [result |-> <<r.val.value>>, err |-> "nil"]

\* Store.GetCIDR: RLock; table.LookupPrefix(key); nil when nothing matched,
\* else the one matched value.
GetCIDRRet(tbl, key) ==
    LET r == TableLookupPrefix(tbl, key)
    IN  IF ~r.ok THEN [result |-> <<>>, err |-> "nil"]
        ELSE [result |-> <<r.val.value>>, err |-> "nil"]

\* A Len that counts the IPv4 prefixes only.
LenRetSize4(tbl) ==
    [result |-> Cardinality({q \in Stored(tbl) : q.fam = "v4"}), err |-> "nil"]

\* Store.Len: RLock; table.Size().
LenRet(tbl) == [result |-> TableSize(tbl), err |-> "nil"]

\* The model stops adding new prefixes at MaxEntries stored prefixes.
Room(tbl, pfx) ==
    ~IsValid(pfx) \/ Has(tbl, pfx) \/ TableSize(tbl) < MaxEntries

AddCIDR(key, value) ==
    LET r == AddCIDRRet(table, key, value)
    IN  /\ Room(table, key)
        /\ table' = r.table
        /\ last' = Call("AddCIDR", Has(table, key), <<>>, r.err)
        /\ UNCHANGED <<mu, proc>>

Add(key, value) ==
    LET r == AddRet(table, key, value)
    IN  /\ Room(table, AddrPrefix(key).prf)
        /\ table' = r.table
        /\ last' = Call("Add", Has(table, AddrPrefix(key).prf), <<>>, r.err)
        /\ UNCHANGED <<mu, proc>>

AddIPOrCIDR(ipOrCIDR, value) ==
    LET r == AddIPOrCIDRRet(table, ipOrCIDR, value)
    IN  /\ table' = r.table
        /\ last' = Call("AddIPOrCIDR", FALSE, <<>>, r.err)
        /\ UNCHANGED <<mu, proc>>

RemoveCIDR(key) ==
    LET r == RemoveCIDRRet(table, key)
    IN  /\ table' = r.table
        /\ last' = Call("RemoveCIDR", Has(table, key), r.result, r.err)
        /\ UNCHANGED <<mu, proc>>

Remove(key) ==
    LET r == RemoveRet(table, key)
    IN  /\ table' = r.table
        /\ last' = Call("Remove", Has(table, AddrPrefix(key).prf), r.result, r.err)
        /\ UNCHANGED <<mu, proc>>

RemoveIPOrCIDR(ipOrCIDR, value) ==
    LET r == RemoveIPOrCIDRRet(table, ipOrCIDR, value)
    IN  /\ table' = r.table
        /\ last' = Call("RemoveIPOrCIDR", FALSE, r.result, r.err)
        /\ UNCHANGED <<mu, proc>>

Contains(ip) ==
    LET r == ContainsRet(table, ip)
    IN  /\ last' = Call("Contains", Has(table, AddrPrefix(ip).prf), r.result, r.err)
        /\ UNCHANGED <<table, mu, proc>>

\* A Get that takes the matched entry out of the table.
GetEvicts(key) ==
    LET r == GetRet(table, key)
    IN  /\ last' = Call("Get", Has(table, AddrPrefix(key).prf), r.result, r.err)
        /\ table' = IF key.fam = "z0" THEN table
                    ELSE RemoveCIDRRetLongestMatch(table, AddrPrefix(key).prf).table
        /\ UNCHANGED <<mu, proc>>

Get(key) ==
    LET r == GetRet(table, key)
    IN  /\ last' = Call("Get", Has(table, AddrPrefix(key).prf), r.result, r.err)
        /\ UNCHANGED <<table, mu, proc>>

GetOne(key) ==
    LET r == GetOneRet(table, key)
    IN  /\ last' = Call("GetOne", Has(table, AddrPrefix(key).prf), <<r.result, r.ok>>, "nil")
        /\ UNCHANGED <<table, mu, proc>>

GetCIDR(key) ==
    LET r == GetCIDRRet(table, key)
    IN  /\ last' = Call("GetCIDR", Has(table, key), r.result, r.err)
        /\ UNCHANGED <<table, mu, proc>>

\* Store.Len (Len is the length of a sequence in this module).
StoreLen ==
    LET r == LenRet(table)
    IN  /\ last' = Call("Len", FALSE, r.result, r.err)
        /\ UNCHANGED <<table, mu, proc>>

Next ==
    \/ \E key \in Prefixes, value \in Values : AddCIDR(key, value)
    \/ \E key \in Addrs, value \in Values : Add(key, value)
    \/ \E ipOrCIDR \in Literals, value \in Values : AddIPOrCIDR(ipOrCIDR, value)
    \/ \E key \in Prefixes : RemoveCIDR(key)
    \/ \E key \in Addrs : Remove(key)
    \/ \E ipOrCIDR \in Literals, value \in Values : RemoveIPOrCIDR(ipOrCIDR, value)
    \/ \E ip \in Addrs : Contains(ip)
    \/ \E key \in Addrs : Get(key)
    \/ \E key \in Addrs : GetOne(key)
    \/ \E key \in Prefixes : GetCIDR(key)
    \/ StoreLen

Spec == Init /\ [][Next]_vars

\* ------------------------------------------------------------- goroutines
\* The keys the goroutines use: the IPv4 addresses and the IPv4 prefixes of
\* address 0, which are nested in one another.
SharedPrefixes == {p \in ValidPrefixes : p.fam = "v4" /\ p.bits = 0}

SharedAddrs == {a \in ValidAddrs : a.fam = "v4"}

\* The calls a goroutine makes.  AddIPOrCIDR and RemoveIPOrCIDR read none of
\* their arguments, so their calls carry no key.
Calls ==
    {[op |-> o, key |-> k, value |-> v] :
        o \in {"AddCIDR"}, k \in SharedPrefixes, v \in Values} \cup
    {[op |-> o, key |-> k, value |-> v] :
        o \in {"Add"}, k \in SharedAddrs, v \in Values} \cup
    {[op |-> o, key |-> k, value |-> Zero] :
        o \in {"RemoveCIDR", "GetCIDR"}, k \in SharedPrefixes} \cup
    {[op |-> o, key |-> k, value |-> Zero] :
        o \in {"Remove", "Contains", "Get"}, k \in SharedAddrs} \cup
    {[op |-> "Len", key |-> Idle.key, value |-> Zero]} \cup
    {[op |-> o, key |-> k, value |-> Zero] :
        o \in {"AddIPOrCIDR", "RemoveIPOrCIDR"}, k \in {Idle.key}}

\* An AddCIDR that takes the lock in shared mode.
BodyAddCIDRReadLocked(op) ==
    CASE op = "Add" -> <<"Prefix", "Lock", "Insert", "Unlock">>
      [] op = "AddCIDR" -> <<"RLock", "Insert", "RUnlock">>
      [] op = "Remove" -> <<"Prefix", "Lock", "GetAndDelete", "Unlock">>
      [] op = "RemoveCIDR" -> <<"Lock", "GetAndDelete", "Unlock">>
      [] op = "Contains" -> <<"RLock", "Lookup", "RUnlock">>
      [] op = "Get" -> <<"RLock", "Lookup", "RUnlock">>
      [] op = "GetCIDR" -> <<"RLock", "LookupPrefix", "RUnlock">>
      [] op = "Len" -> <<"RLock", "Size", "RUnlock">>
      [] op \in {"AddIPOrCIDR", "RemoveIPOrCIDR"} -> <<"Return">>

\* A Get that looks the key up before it takes the lock.
BodyGetLocksLate(op) ==
    CASE op = "Add" -> <<"Prefix", "Lock", "Insert", "Unlock">>
      [] op = "AddCIDR" -> <<"Lock", "Insert", "Unlock">>
      [] op = "Remove" -> <<"Prefix", "Lock", "GetAndDelete", "Unlock">>
      [] op = "RemoveCIDR" -> <<"Lock", "GetAndDelete", "Unlock">>
      [] op = "Contains" -> <<"RLock", "Lookup", "RUnlock">>
      [] op = "Get" -> <<"Lookup", "RLock", "RUnlock">>
      [] op = "GetCIDR" -> <<"RLock", "LookupPrefix", "RUnlock">>
      [] op = "Len" -> <<"RLock", "Size", "RUnlock">>
      [] op \in {"AddIPOrCIDR", "RemoveIPOrCIDR"} -> <<"Return">>

\* An AddCIDR that returns without releasing the lock.
BodyAddCIDRKeepsLock(op) ==
    CASE op = "Add" -> <<"Prefix", "Lock", "Insert">>
      [] op = "AddCIDR" -> <<"Lock", "Insert">>
      [] op = "Remove" -> <<"Prefix", "Lock", "GetAndDelete", "Unlock">>
      [] op = "RemoveCIDR" -> <<"Lock", "GetAndDelete", "Unlock">>
      [] op = "Contains" -> <<"RLock", "Lookup", "RUnlock">>
      [] op = "Get" -> <<"RLock", "Lookup", "RUnlock">>
      [] op = "GetCIDR" -> <<"RLock", "LookupPrefix", "RUnlock">>
      [] op = "Len" -> <<"RLock", "Size", "RUnlock">>
      [] op \in {"AddIPOrCIDR", "RemoveIPOrCIDR"} -> <<"Return">>

\* An Add that takes the lock itself before it calls AddCIDR.
BodyAddLocksItself(op) ==
    CASE op = "Add" -> <<"Prefix", "Lock", "Lock", "Insert", "Unlock", "Unlock">>
      [] op = "AddCIDR" -> <<"Lock", "Insert", "Unlock">>
      [] op = "Remove" -> <<"Prefix", "Lock", "GetAndDelete", "Unlock">>
      [] op = "RemoveCIDR" -> <<"Lock", "GetAndDelete", "Unlock">>
      [] op = "Contains" -> <<"RLock", "Lookup", "RUnlock">>
      [] op = "Get" -> <<"RLock", "Lookup", "RUnlock">>
      [] op = "GetCIDR" -> <<"RLock", "LookupPrefix", "RUnlock">>
      [] op = "Len" -> <<"RLock", "Size", "RUnlock">>
      [] op \in {"AddIPOrCIDR", "RemoveIPOrCIDR"} -> <<"Return">>

\* The lock and table calls each method makes, in the order it makes them; a
\* deferred Unlock/RUnlock runs last.  AddIPOrCIDR and RemoveIPOrCIDR are a
\* return statement and nothing else.
Body(op) ==
    CASE op = "Add" -> <<"Prefix", "Lock", "Insert", "Unlock">>
      [] op = "AddCIDR" -> <<"Lock", "Insert", "Unlock">>
      [] op = "Remove" -> <<"Prefix", "Lock", "GetAndDelete", "Unlock">>
      [] op = "RemoveCIDR" -> <<"Lock", "GetAndDelete", "Unlock">>
      [] op = "Contains" -> <<"RLock", "Lookup", "RUnlock">>
      [] op = "Get" -> <<"RLock", "Lookup", "RUnlock">>
      [] op = "GetCIDR" -> <<"RLock", "LookupPrefix", "RUnlock">>
      [] op = "Len" -> <<"RLock", "Size", "RUnlock">>
      [] op \in {"AddIPOrCIDR", "RemoveIPOrCIDR"} -> <<"Return">>

\* The statement goroutine t is at.
Instr(t) == IF proc[t].op = "idle" THEN "idle" ELSE Body(proc[t].op)[proc[t].pc]

\* The calls into the bart table, and those of them that change it.
TableCalls == {"Insert", "GetAndDelete", "Lookup", "LookupPrefix", "Size"}

Mutations == {"Insert", "GetAndDelete"}

\* Goroutine t is inside its table call.
InTable(t) == Instr(t) \in TableCalls /\ proc[t].in

\* What the method op does to the table tbl and what it returns.
Apply(op, tbl, key, value) ==
    CASE op = "Add" ->
           LET r == AddRet(tbl, key, value)
           IN  [table |-> r.table, ret |-> [result |-> <<>>, err |-> r.err]]
      [] op = "AddCIDR" ->
           LET r == AddCIDRRet(tbl, key, value)
           IN  [table |-> r.table, ret |-> [result |-> <<>>, err |-> r.err]]
      [] op = "Remove" ->
           LET r == RemoveRet(tbl, key)
           IN  [table |-> r.table, ret |-> [result |-> r.result, err |-> r.err]]
      [] op = "RemoveCIDR" ->
           LET r == RemoveCIDRRet(tbl, key)
           IN  [table |-> r.table, ret |-> [result |-> r.result, err |-> r.err]]
      [] op = "Contains" -> [table |-> tbl, ret |-> ContainsRet(tbl, key)]
      [] op = "Get" -> [table |-> tbl, ret |-> GetRet(tbl, key)]
      [] op = "GetCIDR" -> [table |-> tbl, ret |-> GetCIDRRet(tbl, key)]
      [] op = "Len" -> [table |-> tbl, ret |-> LenRet(tbl)]

\* The goroutine p after its current statement: at the next one, or back in
\* no call after the last.
Advance(p) ==
    IF p.pc = Len(Body(p.op)) THEN Idle
    ELSE [p EXCEPT !.pc = @ + 1, !.in = FALSE]

\* A data race on the table has no defined outcome: a table call that
\* overlapped a conflicting one may leave any table and return any result of
\* its type.
AnyTable ==
    UNION {{[entries |-> f, size |-> n] :
                f \in [S -> {[value |-> v] : v \in Values}], n \in 0 .. MaxEntries} :
           S \in SUBSET {Masked(p) : p \in SharedPrefixes}}

AnyRet(op) ==
    CASE op \in {"Add", "AddCIDR"} -> {[result |-> <<>>, err |-> "nil"]}
      [] op \in {"Remove", "RemoveCIDR"} -> {[result |-> v, err |-> "nil"] : v \in Values}
      [] op = "Contains" -> {[result |-> b, err |-> "nil"] : b \in BOOLEAN}
      [] op \in {"Get", "GetCIDR"} ->
           {[result |-> <<>>, err |-> "nil"]} \cup {[result |-> <<v>>, err |-> "nil"] : v \in Values}
      [] op = "Len" -> {[result |-> n, err |-> "nil"] : n \in 0 .. MaxEntries}

\* A goroutine that is in no call calls a method.
Invoke(t, c) ==
    /\ proc[t] = Idle
    /\ proc' = [proc EXCEPT ![t] = [Idle EXCEPT !.op = c.op, !.key = c.key,
                                                !.value = c.value, !.pc = 1]]
    /\ UNCHANGED <<table, last, mu>>

\* key.Prefix(key.BitLen()) of Add and Remove, which return its error.
Prefix(t) ==
    /\ Instr(t) = "Prefix"
    /\ proc' = [proc EXCEPT ![t] =
                   IF AddrPrefix(proc[t].key).err # "nil" THEN Idle ELSE Advance(proc[t])]
    /\ UNCHANGED <<table, last, mu>>

\* s.Lock(), first half: the goroutine takes the writer side, which keeps
\* later readers out, and waits for the active readers to leave.
Lock(t) ==
    /\ Instr(t) = "Lock" /\ ~proc[t].in
    /\ mu.w = None
    /\ mu' = [mu EXCEPT !.w = t]
    /\ proc' = [proc EXCEPT ![t].in = TRUE]
    /\ UNCHANGED <<table, last>>

\* s.Lock(), second half: no reader is left and Lock returns.
LockAcquire(t) ==
    /\ Instr(t) = "Lock" /\ proc[t].in
    /\ mu.w = t /\ mu.active = {}
    /\ mu' = [mu EXCEPT !.locked = TRUE]
    /\ proc' = [proc EXCEPT ![t] = Advance(proc[t])]
    /\ UNCHANGED <<table, last>>

\* An RLock that also waits while another reader holds the lock, as the Lock
\* of a plain mutex would.
RLockExclusive(t) ==
    /\ Instr(t) = "RLock" /\ ~proc[t].in
    /\ IF mu.w = None /\ mu.active = {}
       THEN /\ mu' = [mu EXCEPT !.active = @ \cup {t}]
            /\ proc' = [proc EXCEPT ![t] = Advance(proc[t])]
       ELSE /\ mu' = [mu EXCEPT !.blocked = @ \cup {t}]
            /\ proc' = [proc EXCEPT ![t].in = TRUE]
    /\ UNCHANGED <<table, last>>

\* s.RLock(): returns at once unless a writer holds or waits for the lock;
\* then the goroutine is parked.
RLock(t) ==
    /\ Instr(t) = "RLock" /\ ~proc[t].in
    /\ IF mu.w = None
       THEN /\ mu' = [mu EXCEPT !.active = @ \cup {t}]
            /\ proc' = [proc EXCEPT ![t] = Advance(proc[t])]
       ELSE /\ mu' = [mu EXCEPT !.blocked = @ \cup {t}]
            /\ proc' = [proc EXCEPT ![t].in = TRUE]
    /\ UNCHANGED <<table, last>>

\* s.RLock() of a parked goroutine returns once Unlock has woken it.
RLockWake(t) ==
    /\ Instr(t) = "RLock" /\ proc[t].in
    /\ t \in mu.active
    /\ proc' = [proc EXCEPT ![t] = Advance(proc[t])]
    /\ UNCHANGED <<table, last, mu>>

\* The table calls of t and u conflict: one of them changes the table.
Conflict(t, u) == t # u /\ (Instr(t) \in Mutations \/ Instr(u) \in Mutations)

\* The goroutine enters its table call.
TableBegin(t) ==
    /\ Instr(t) \in TableCalls /\ ~proc[t].in
    /\ LET hit == {u \in Callers : InTable(u) /\ Conflict(t, u)}
       IN  proc' = [u \in Callers |->
                       IF u = t THEN [proc[t] EXCEPT !.in = TRUE, !.raced = hit # {}]
                       ELSE IF u \in hit THEN [proc[u] EXCEPT !.raced = TRUE]
                       ELSE proc[u]]
    /\ UNCHANGED <<table, last, mu>>

\* The table call returns: it has acted on the table as a whole, unless it
\* raced.
TableEnd(t) ==
    /\ InTable(t)
    /\ LET p == proc[t]
           r == Apply(p.op, table, p.key, p.value)
       IN  IF ~p.raced
           THEN /\ table' = r.table
                /\ proc' = [proc EXCEPT ![t] = [Advance(p) EXCEPT !.ret = r.ret]]
           ELSE /\ table' \in (IF Instr(t) \in Mutations THEN AnyTable ELSE {table})
                /\ \E ret \in AnyRet(p.op) :
                      proc' = [proc EXCEPT ![t] = [Advance(p) EXCEPT !.ret = ret]]
    /\ UNCHANGED <<last, mu>>

\* s.Unlock(): the parked readers are woken and hold the lock before the
\* writer side is free again.
Unlock(t) ==
    /\ Instr(t) = "Unlock"
    /\ mu.locked
    /\ mu' = [w |-> None, locked |-> FALSE, active |-> mu.active \cup mu.blocked,
              blocked |-> {}]
    /\ proc' = [proc EXCEPT ![t] = Advance(proc[t])]
    /\ UNCHANGED <<table, last>>

\* s.RUnlock()
RUnlock(t) ==
    /\ Instr(t) = "RUnlock"
    /\ t \in mu.active
    /\ mu' = [mu EXCEPT !.active = @ \ {t}]
    /\ proc' = [proc EXCEPT ![t] = Advance(proc[t])]
    /\ UNCHANGED <<table, last>>

\* The return statement of AddIPOrCIDR and RemoveIPOrCIDR, which neither
\* read their arguments nor touch the lock or the table.
Return(t) ==
    /\ Instr(t) = "Return"
    /\ proc' = [proc EXCEPT ![t] = Advance(proc[t])]
    /\ UNCHANGED <<table, last, mu>>

\* A step of goroutine t inside a call.
Run(t) ==
    \/ Prefix(t)
    \/ Lock(t)
    \/ LockAcquire(t)
    \/ RLock(t)
    \/ RLockWake(t)
    \/ TableBegin(t)
    \/ TableEnd(t)
    \/ Unlock(t)
    \/ RUnlock(t)
    \/ Return(t)

NextC ==
    \E t \in Callers :
        \/ \E c \in Calls : Invoke(t, c)
        \/ Run(t)

\* The goroutines of a program call the methods of one Store in any
\* interleaving.
SpecC == Init /\ [][NextC]_vars

\* The calls of the goroutines under the fair scheduler: every method, on
\* address 0 or on the prefix of length 0, with the zero value.
FairCalls ==
    {c \in Calls : /\ c.value = Zero
                   /\ c.key \in {Idle.key, [fam |-> "v4", bits |-> 0],
                                 [fam |-> "v4", bits |-> 0, len |-> 0]}}

NextFair ==
    \E t \in Callers :
        \/ \E c \in FairCalls : Invoke(t, c)
        \/ Run(t)

\* The scheduler runs every goroutine that can take a step (weak fairness of
\* its steps), and the writer side of the mutex is handed to a goroutine
\* that keeps waiting for it (strong fairness of Lock).  Nothing makes a
\* goroutine call again.
SpecFair ==
    /\ Init
    /\ [][NextFair]_vars
    /\ \A t \in Callers : WF_vars(Run(t)) /\ SF_vars(Lock(t))

\* ------------------------------------------------------------- claims
\* The vocabulary of the claims, stated on bits and not through the table's
\* own lookup: the first n bits of an address of family fam.
Leading(fam, bits, n) == bits \div (2 ^ (BitLen(fam) - n))

\* The stored prefix q contains the address a.
CoversAddr(q, a) ==
    q.fam = a.fam /\ Leading(q.fam, q.bits, q.len) = Leading(a.fam, a.bits, q.len)

\* The stored prefix q is the prefix Q or a broader prefix containing it.
CoversPrefix(q, Q) ==
    /\ q.fam = Q.fam
    /\ q.len <= Q.len
    /\ Leading(q.fam, q.bits, q.len) = Leading(Q.fam, Q.bits, q.len)

StoredCoveringAddr(a) == {q \in Stored(table) : CoversAddr(q, a)}

StoredCoveringPrefix(Q) == {q \in Stored(table) : CoversPrefix(q, Q)}

ValueOf(q) == table.entries[q].value

\* r lists one value for each prefix of S, most specific first.
ListsMostSpecificFirst(r, S) ==
    /\ Len(r) = Cardinality(S)
    /\ \A i \in 1 .. Len(r) :
          \E q \in S : /\ Cardinality({x \in S : x.len > q.len}) = i - 1
                       /\ r[i] = ValueOf(q)

\* C1: Get(address) returns exactly one value for each stored prefix that
\* covers the address and no other value (three covering prefixes give a list
\* of length 3).
C1_GetReturnsEveryCoveringEntry ==
    \A a \in ValidAddrs :
        LET r == GetRet(table, a).result
        IN  /\ Len(r) = Cardinality(StoredCoveringAddr(a))
            /\ {r[i] : i \in 1 .. Len(r)} = {ValueOf(q) : q \in StoredCoveringAddr(a)}

\* C2: the lists returned by Get and GetCIDR run from the most specific
\* covering entry at index 0 to the broadest covering entry at the end, each
\* element coming from a strictly shorter prefix than the one before it.
C2_ResultsRunFromLongestToBroadest ==
    /\ \A a \in ValidAddrs :
          LET r == GetRet(table, a).result
              S == StoredCoveringAddr(a)
          IN  r # <<>> =>
                /\ \E q \in S : (\A x \in S : x.len <= q.len) /\ r[1] = ValueOf(q)
                /\ \E q \in S : (\A x \in S : x.len >= q.len) /\ r[Len(r)] = ValueOf(q)
                /\ \E es \in [1 .. Len(r) -> S] :
                      /\ \A i \in 1 .. Len(r) : r[i] = ValueOf(es[i])
                      /\ \A i \in 1 .. Len(r) - 1 : es[i].len > es[i + 1].len
    /\ \A Q \in ValidPrefixes :
          LET r == GetCIDRRet(table, Q).result
              S == StoredCoveringPrefix(Q)
          IN  r # <<>> =>
                /\ \E q \in S : (\A x \in S : x.len <= q.len) /\ r[1] = ValueOf(q)
                /\ \E q \in S : (\A x \in S : x.len >= q.len) /\ r[Len(r)] = ValueOf(q)
                /\ \E es \in [1 .. Len(r) -> S] :
                      /\ \A i \in 1 .. Len(r) : r[i] = ValueOf(es[i])
                      /\ \A i \in 1 .. Len(r) - 1 : es[i].len > es[i + 1].len

\* C3: whenever some stored prefix covers address A, element 0 of Get(A) is
\* the value stored under the longest stored prefix covering A, in every
\* reachable table (so whatever the order of the adds that built it).
C3_GetFirstIsLongestMatch ==
    \A a \in ValidAddrs :
        \A q \in StoredCoveringAddr(a) :
            (\A x \in StoredCoveringAddr(a) : x.len <= q.len) =>
                LET r == GetRet(table, a)
                IN  r.err = "nil" /\ r.result # <<>> /\ r.result[1] = ValueOf(q)

\* A Get has returned the value of the longest of three stored prefixes that
\* cover one address, the two broader ones holding another value.
C3_Witness ==
    /\ last.op = "Get"
    /\ \E a \in ValidAddrs :
          /\ Cardinality(StoredCoveringAddr(a)) = 3
          /\ \E q \in StoredCoveringAddr(a) :
                /\ q.len = BitLen(a.fam)
                /\ \A x \in StoredCoveringAddr(a) \ {q} : ValueOf(x) # ValueOf(q)
                /\ last.result = <<ValueOf(q)>>
                /\ last.result = GetRet(table, a).result

\* C4: GetCIDR(Q) returns one value for every stored prefix that is Q itself
\* or a broader prefix covering Q, most specific first (two such prefixes give
\* a list of length 2, three a list of length 3).
C4_GetCIDRReturnsEveryCoveringEntry ==
    \A Q \in ValidPrefixes :
        ListsMostSpecificFirst(GetCIDRRet(table, Q).result, StoredCoveringPrefix(Q))

\* C5: GetCIDR(Q) never returns the value of a stored prefix that is longer
\* than Q or does not cover Q; when only subnets or siblings of Q are stored
\* it returns an empty list.
C5_GetCIDRNoSubnetsNoSiblings ==
    \A Q \in ValidPrefixes :
        LET r == GetCIDRRet(table, Q)
        IN  /\ r.err = "nil"
            /\ \A i \in 1 .. Len(r.result) :
                  \E q \in StoredCoveringPrefix(Q) : r.result[i] = ValueOf(q)
            /\ StoredCoveringPrefix(Q) = {} => r.result = <<>>

\* A GetCIDR has returned the empty list for a prefix Q while a subnet of Q
\* and a sibling of Q were stored with non-zero values.
C5_Witness ==
    /\ last.op = "GetCIDR"
    /\ last.result = <<>>
    /\ \E Q \in ValidPrefixes :
          /\ Q.len >= 1
          /\ GetCIDRRet(table, Q).result = last.result
          /\ \E q \in Stored(table) :
                q.len > Q.len /\ CoversPrefix(Masked(Q), q) /\ ValueOf(q) # Zero
          /\ \E q \in Stored(table) :
                /\ q.fam = Q.fam /\ q.len = Q.len /\ q # Masked(Q)
                /\ ValueOf(q) # Zero

\* The key a prefix is stored under: its family, length and first len bits.
KeyOf(P) == [fam |-> P.fam, bits |-> Leading(P.fam, P.bits, P.len) * 2 ^ (BitLen(P.fam) - P.len),
             len |-> P.len]

\* The full-length prefix of an address.
FullPrefix(a) == [fam |-> a.fam, bits |-> a.bits, len |-> BitLen(a.fam)]

\* Every value of the list r is held in tbl by a prefix of S.
DrawnFrom(r, tbl, S) ==
    \A i \in 1 .. Len(r) : \E q \in S : r[i] = tbl.entries[q].value

\* Every read of the store returns the same on t1 and t2.
SameReads(t1, t2) ==
    /\ LenRet(t1) = LenRet(t2)
    /\ \A a \in Addrs : GetRet(t1, a) = GetRet(t2, a) /\ ContainsRet(t1, a) = ContainsRet(t2, a)
    /\ \A Q \in Prefixes : GetCIDRRet(t1, Q) = GetCIDRRet(t2, Q)

\* C6: from any store state, AddCIDR(P, V) followed at once by GetCIDR(P) has
\* V at index 0, and Add(addr, V) followed at once by Get(addr) has V at
\* index 0.
C6_AddThenLookupReturnsValue ==
    /\ \A P \in ValidPrefixes, v \in Values :
          LET w == AddCIDRRet(table, P, v)
              r == GetCIDRRet(w.table, P)
          IN  w.err = "nil" /\ r.err = "nil" /\ r.result # <<>> /\ r.result[1] = v
    /\ \A a \in ValidAddrs, v \in Values :
          LET w == AddRet(table, a, v)
              r == GetRet(w.table, a)
          IN  w.err = "nil" /\ r.err = "nil" /\ r.result # <<>> /\ r.result[1] = v

\* An AddCIDR of a new prefix has completed, and a lookup of a stored prefix
\* that has a broader and a narrower stored neighbour holding another value
\* returns that prefix's own value.
C6_Witness ==
    /\ last.op = "AddCIDR" /\ ~last.hit
    /\ \E P \in Stored(table) :
          /\ ValueOf(P) = "a"
          /\ \E q \in Stored(table) : q.len < P.len /\ CoversPrefix(q, P) /\ ValueOf(q) = Zero
          /\ \E q \in Stored(table) : q.len > P.len /\ CoversPrefix(P, q) /\ ValueOf(q) = Zero
          /\ GetCIDRRet(table, P).result = <<"a">>

\* C7: adding a prefix that is already stored, with a different value, leaves
\* Len unchanged; afterwards a lookup of the prefix returns the second value
\* and not the first, and when it is the only stored prefix Get returns
\* exactly one element, the second value.
C7_OverwriteKeepsLenAndTakesSecondValue ==
    /\ \A P \in ValidPrefixes, v2 \in Values :
          (KeyOf(P) \in Stored(table) /\ ValueOf(KeyOf(P)) # v2) =>
              LET w == AddCIDRRet(table, P, v2)
                  r == GetCIDRRet(w.table, P)
              IN  /\ LenRet(w.table) = LenRet(table)
                  /\ Stored(w.table) = Stored(table)
                  /\ r.result = <<v2>>
                  /\ r.result # <<ValueOf(KeyOf(P))>>
    /\ \A a \in ValidAddrs, v2 \in Values :
          (FullPrefix(a) \in Stored(table) /\ ValueOf(FullPrefix(a)) # v2) =>
              LET w == AddRet(table, a, v2)
                  r == GetRet(w.table, a)
              IN  /\ LenRet(w.table) = LenRet(table)
                  /\ r.result # <<>> /\ r.result[1] = v2
                  /\ Stored(table) = {FullPrefix(a)} => r.result = <<v2>>

\* An Add of an address that was already stored has completed; the address
\* is the only key, Len is 1 and Get returns the one value it now holds; one
\* more Add with the other value overwrites again.
C7_Witness ==
    /\ last.op = "Add" /\ last.hit
    /\ LenRet(table).result = 1
    /\ \E a \in ValidAddrs :
          /\ Stored(table) = {FullPrefix(a)}
          /\ GetRet(table, a).result = <<"a">>
          /\ GetRet(AddRet(table, a, Zero).table, a).result = <<Zero>>

\* C8: a Remove/RemoveCIDR of a stored prefix P leaves P not stored and Len
\* exactly one less; every Get/GetCIDR result after it is drawn from the
\* entries that remain, none from the entry removed.
C8_RemoveDeletesExactlyOne ==
    /\ \A P \in ValidPrefixes :
          KeyOf(P) \in Stored(table) =>
              LET w == RemoveCIDRRet(table, P).table
              IN  /\ KeyOf(P) \notin Stored(w)
                  /\ LenRet(w).result = LenRet(table).result - 1
                  /\ w.entries = [q \in Stored(table) \ {KeyOf(P)} |-> table.entries[q]]
                  /\ \A a \in ValidAddrs :
                        DrawnFrom(GetRet(w, a).result, table,
                                  StoredCoveringAddr(a) \ {KeyOf(P)})
                  /\ \A Q \in ValidPrefixes :
                        DrawnFrom(GetCIDRRet(w, Q).result, table,
                                  StoredCoveringPrefix(Q) \ {KeyOf(P)})
    /\ \A k \in ValidAddrs :
          FullPrefix(k) \in Stored(table) =>
              LET w == RemoveRet(table, k).table
              IN  /\ FullPrefix(k) \notin Stored(w)
                  /\ LenRet(w).result = LenRet(table).result - 1
                  /\ w.entries = [q \in Stored(table) \ {FullPrefix(k)} |-> table.entries[q]]
                  /\ \A a \in ValidAddrs :
                        DrawnFrom(GetRet(w, a).result, table,
                                  StoredCoveringAddr(a) \ {FullPrefix(k)})

\* A RemoveCIDR of a stored prefix has returned the value "a"; two entries
\* remain and no remaining entry, and so no Get or GetCIDR result, holds "a".
C8_Witness ==
    /\ last.op = "RemoveCIDR" /\ last.hit /\ last.result = "a"
    /\ LenRet(table).result = 2
    /\ \A q \in Stored(table) : ValueOf(q) # "a"
    /\ \E a \in ValidAddrs : GetRet(table, a).result = <<Zero>>
    /\ \A a \in ValidAddrs : GetRet(table, a).result # <<"a">>
    /\ \A Q \in ValidPrefixes : GetCIDRRet(table, Q).result # <<"a">>

\* C9: Remove/RemoveCIDR(P) matches P exactly.  When P is stored it returns
\* the value held under exactly P and removes only P.  When P is not stored
\* it removes nothing and returns the zero value whatever the broader
\* prefixes covering P hold, so never a non-zero value of theirs.
C9_RemoveMatchesExactly ==
    /\ \A P \in ValidPrefixes :
          LET w == RemoveCIDRRet(table, P)
          IN  /\ KeyOf(P) \in Stored(table) =>
                    /\ w.result = ValueOf(KeyOf(P))
                    /\ Stored(w.table) = Stored(table) \ {KeyOf(P)}
              /\ KeyOf(P) \notin Stored(table) =>
                    /\ w.table = table
                    /\ w.result = Zero
                    /\ \A q \in StoredCoveringPrefix(P) :
                          ValueOf(q) # Zero => w.result # ValueOf(q)
    /\ \A k \in ValidAddrs :
          LET w == RemoveRet(table, k)
          IN  /\ FullPrefix(k) \in Stored(table) =>
                    /\ w.result = ValueOf(FullPrefix(k))
                    /\ Stored(w.table) = Stored(table) \ {FullPrefix(k)}
              /\ FullPrefix(k) \notin Stored(table) =>
                    /\ w.table = table
                    /\ w.result = Zero
                    /\ \A q \in StoredCoveringAddr(k) :
                          ValueOf(q) # Zero => w.result # ValueOf(q)

\* A RemoveCIDR of a prefix that was not stored has returned the zero value
\* while the match-all prefixes of both families, which cover every valid
\* prefix, were stored with the value "a"; all MaxEntries entries are still
\* there.
C9_Witness ==
    /\ last.op = "RemoveCIDR" /\ ~last.hit /\ last.result = Zero
    /\ LenRet(table).result = MaxEntries
    /\ Cardinality(Stored(table)) = MaxEntries
    /\ \A q \in Stored(table) : ValueOf(q) = "a"
    /\ \A f \in {"v4", "v6"} : [fam |-> f, bits |-> 0, len |-> 0] \in Stored(table)
    /\ \E P \in ValidPrefixes :
          KeyOf(P) \notin Stored(table) /\ RemoveCIDRRet(table, P).result = Zero

\* C10: a Remove/RemoveCIDR of a key that is not stored returns a nil error
\* and changes nothing: Len and every Get, GetCIDR and Contains result are the
\* same after the call as before it.  (The reads are functions of the table,
\* so they are compared one by one only where the table itself differs.)
C10_RemoveAbsentChangesNothing ==
    /\ \A P \in Prefixes :
          ~(IsValid(P) /\ KeyOf(P) \in Stored(table)) =>
              LET w == RemoveCIDRRet(table, P)
              IN  w.err = "nil" /\ (w.table = table \/ SameReads(w.table, table))
    /\ \A k \in Addrs :
          ~(k \in ValidAddrs /\ FullPrefix(k) \in Stored(table)) =>
              LET w == RemoveRet(table, k)
              IN  w.err = "nil" /\ (w.table = table \/ SameReads(w.table, table))

\* A Remove of an address that was not stored has returned with a nil error
\* on a store that holds entries of both values, and Len still counts every
\* stored prefix.
C10_Witness ==
    /\ last.op = "Remove" /\ ~last.hit /\ last.err = "nil"
    /\ LenRet(table).result = MaxEntries
    /\ Cardinality(Stored(table)) = MaxEntries
    /\ \E q \in Stored(table) : ValueOf(q) = "a"
    /\ \E q \in Stored(table) : ValueOf(q) = Zero
    /\ \E k \in ValidAddrs : FullPrefix(k) \notin Stored(table) /\ ContainsRet(table, k).result

\* C11: Remove/RemoveCIDR tells "not present" apart from a removal: what it
\* returns for a key that is not stored differs from what it returns for a
\* stored key whose value is the zero value of V.
C11_RemoveTellsAbsentFromStoredZero ==
    \A P \in Prefixes, Q \in ValidPrefixes :
        (/\ ~(IsValid(P) /\ KeyOf(P) \in Stored(table))
         /\ KeyOf(Q) \in Stored(table)
         /\ ValueOf(KeyOf(Q)) = Zero) =>
            LET miss == RemoveCIDRRet(table, P)
                hit == RemoveCIDRRet(table, Q)
            IN  <<miss.result, miss.err>> # <<hit.result, hit.err>>

\* C12: once the full-length entry of an address is removed, Get(address)
\* lists the values of the stored prefixes that still cover the address, the
\* most specific first (/24 then /16 after the /32 is removed; the /24 alone
\* when nothing broader is stored).
C12_RemainingCoveringEntriesSurface ==
    \A a \in ValidAddrs :
        FullPrefix(a) \in Stored(table) =>
            LET w == RemoveRet(table, a).table
            IN  ListsMostSpecificFirst(GetRet(w, a).result,
                                       StoredCoveringAddr(a) \ {FullPrefix(a)})

\* C13: not-found is a normal outcome: for an address or a prefix that no
\* stored prefix covers, on an empty store as on any other, Get and GetCIDR
\* return an empty list with a nil error and Contains returns false with a
\* nil error.
C13_NotFoundIsNormal ==
    /\ \A a \in ValidAddrs :
          StoredCoveringAddr(a) = {} =>
              /\ GetRet(table, a) = [result |-> <<>>, err |-> "nil"]
              /\ ContainsRet(table, a) = [result |-> FALSE, err |-> "nil"]
    /\ \A Q \in ValidPrefixes :
          StoredCoveringPrefix(Q) = {} =>
              GetCIDRRet(table, Q) = [result |-> <<>>, err |-> "nil"]

\* A Get has returned the empty list and a nil error on a store that is full
\* of entries, none of which covers some address.
C13_Witness ==
    /\ last.op = "Get" /\ last.result = <<>> /\ last.err = "nil"
    /\ Cardinality(Stored(table)) = MaxEntries
    /\ \E a \in ValidAddrs : StoredCoveringAddr(a) = {}

\* The table left by RemoveCIDR of every prefix of S, one after the other.
RECURSIVE RemoveEach(_, _)
RemoveEach(tbl, S) ==
    IF S = {} THEN tbl
    ELSE LET q == CHOOSE x \in S : TRUE
         IN  RemoveEach(RemoveCIDRRet(tbl, q).table, S \ {q})

\* C14: Contains(address) is true exactly when some stored prefix, of any
\* length, covers the address (so also for an address that was never added
\* itself but lies inside a stored CIDR), and it is false once every covering
\* entry has been removed.
C14_ContainsIffCovered ==
    \A a \in ValidAddrs :
        /\ ContainsRet(table, a) = [result |-> StoredCoveringAddr(a) # {}, err |-> "nil"]
        /\ ~ContainsRet(RemoveEach(table, StoredCoveringAddr(a)), a).result

\* A Contains has returned true for an address that is not stored under its
\* own prefix, on a store where two broader prefixes cover such an address.
C14_Witness ==
    /\ last.op = "Contains" /\ ~last.hit /\ last.result = TRUE /\ last.err = "nil"
    /\ \E a \in ValidAddrs :
          /\ FullPrefix(a) \notin Stored(table)
          /\ Cardinality(StoredCoveringAddr(a)) = 2

\* C15: Len() is the number of distinct prefixes stored: 0 for a new store,
\* one more after an add of a prefix that was not stored, the same after an
\* overwrite, one less after a removal of a stored prefix, the same after a
\* removal of an absent one, and never negative.
C15_LenCountsStoredPrefixes ==
    /\ LenRet(table) = [result |-> Cardinality(Stored(table)), err |-> "nil"]
    /\ LenRet(table).result >= 0
    /\ last.op = "New" => LenRet(table).result = 0
    /\ \A P \in ValidPrefixes, v \in Values :
          LenRet(AddCIDRRet(table, P, v).table).result =
              LenRet(table).result + (IF KeyOf(P) \in Stored(table) THEN 0 ELSE 1)
    /\ \A a \in ValidAddrs, v \in Values :
          LenRet(AddRet(table, a, v).table).result =
              LenRet(table).result + (IF FullPrefix(a) \in Stored(table) THEN 0 ELSE 1)
    /\ \A P \in ValidPrefixes :
          LenRet(RemoveCIDRRet(table, P).table).result =
              LenRet(table).result - (IF KeyOf(P) \in Stored(table) THEN 1 ELSE 0)
    /\ \A a \in ValidAddrs :
          LenRet(RemoveRet(table, a).table).result =
              LenRet(table).result - (IF FullPrefix(a) \in Stored(table) THEN 1 ELSE 0)

\* Len has returned the count of a store that holds prefixes of both
\* families.
C15_Witness ==
    /\ last.op = "Len" /\ last.result = MaxEntries /\ last.err = "nil"
    /\ \A f \in {"v4", "v6"} : \E q \in Stored(table) : q.fam = f

\* The prefix a well-formed literal denotes: a bare address its full-length
\* prefix, a CIDR the prefix of its leading bits.
Denoted(s) == IF "len" \in DOMAIN s THEN KeyOf(s) ELSE FullPrefix(s)

\* C20: after AddIPOrCIDR(s, v) returns a nil error for a well-formed literal
\* s, the store holds v under the prefix s denotes: Len counts the entry, a
\* lookup of that prefix returns v at index 0, and a later AddIPOrCIDR of the
\* same key overwrites the value.
C20_AddIPOrCIDRStores ==
    \A s \in Literals, v \in Values :
        LET w == AddIPOrCIDRRet(table, s, v)
        IN  w.err = "nil" =>
                /\ Denoted(s) \in Stored(w.table)
                /\ w.table.entries[Denoted(s)].value = v
                /\ LenRet(w.table).result = Cardinality(Stored(table) \cup {Denoted(s)})
                /\ GetCIDRRet(w.table, Denoted(s)).result # <<>>
                /\ GetCIDRRet(w.table, Denoted(s)).result[1] = v

\* C16: race freedom.  In no reachable state of any interleaving is a table
\* mutation (the Insert of Add/AddCIDR, the GetAndDelete of Remove/RemoveCIDR)
\* in progress while another table access is in progress, and every table
\* access happens while its goroutine holds the lock, a mutation while it
\* holds it in exclusive mode.
C16_NoAccessRacesAMutation ==
    \A t \in Callers :
        InTable(t) =>
            /\ IF Instr(t) \in Mutations
               THEN mu.locked /\ mu.w = t /\ mu.active = {}
               ELSE t \in mu.active /\ ~mu.locked
            /\ \A u \in Callers \ {t} :
                  InTable(u) => Instr(t) \notin Mutations /\ Instr(u) \notin Mutations
            /\ ~proc[t].raced

\* A goroutine is inside a mutation of the table while another one, which
\* called a read, is parked in RLock.
C16_Witness ==
    \E t, u \in Callers :
        /\ InTable(t) /\ Instr(t) \in Mutations
        /\ Instr(u) = "RLock" /\ u \in mu.blocked

\* Goroutine t has made the table call of its method.
AfterTableCall(t) ==
    \E i \in 1 .. (proc[t].pc - 1) : Body(proc[t].op)[i] \in TableCalls

\* C17: each call is atomic.  A read that has made its table call and still
\* holds the lock is about to return what the method returns on the store as
\* it is, which holds every write that has completed and no part of any
\* other; its table call raced with none, and Len is the number of stored
\* prefixes.
C17_ReadsSeeWholeWrites ==
    \A t \in Callers :
        LET p == proc[t]
        IN  /\ (p.op \in {"Contains", "Get", "GetCIDR", "Len"} /\ AfterTableCall(t)) =>
                  /\ p.ret = Apply(p.op, table, p.key, p.value).ret
                  /\ ~p.raced
                  /\ p.op = "Len" => p.ret.result = Cardinality(Stored(table))
            /\ (p.op \in {"Contains", "Get", "GetCIDR", "Len"} /\ InTable(t)) =>
                  /\ ~p.raced
                  /\ \A u \in Callers : ~(InTable(u) /\ Instr(u) \in Mutations)

\* A Get is about to return a stored value while the other goroutine waits
\* in Lock to remove or overwrite it.
C17_Witness ==
    \E t, u \in Callers :
        /\ proc[t].op = "Get" /\ Instr(t) = "RUnlock" /\ proc[t].ret.result = <<"a">>
        /\ Instr(u) = "Lock" /\ proc[u].in /\ mu.w = u
        /\ Apply(proc[u].op, table, proc[u].key, proc[u].value).table # table

\* C18: deadlock freedom.  In every reachable state where some goroutine is
\* inside a call, some goroutine inside a call can take its next step; and a
\* goroutine that calls Lock or RLock does not hold the lock already (Add and
\* Remove take it only inside AddCIDR and RemoveCIDR, once).
C18_NoDeadlockNoReentry ==
    /\ (\E t \in Callers : proc[t] # Idle) => \E t \in Callers : ENABLED Run(t)
    /\ \A t \in Callers :
          (Instr(t) \in {"Lock", "RLock"} /\ ~proc[t].in) =>
              t \notin mu.active /\ mu.w # t

\* An Add waits in Lock for the reader that holds the lock to leave, while
\* that reader is inside its table call.
C18_Witness ==
    \E t, u \in Callers :
        /\ proc[t].op = "Add" /\ Instr(t) = "Lock" /\ proc[t].in
        /\ u \in mu.active /\ InTable(u)

\* C19: every call returns.  Under fair scheduling of the goroutines and of
\* the lock, a goroutine that is inside a call is eventually out of it: a
\* writer waiting in Lock is admitted although readers keep arriving, a
\* reader parked behind a writer is admitted, and a goroutine that holds the
\* lock finishes its table call and releases it.
C19_EveryCallReturns ==
    \A t \in Callers : (proc[t] # Idle) ~> (proc[t] = Idle)

\* A writer waits in Lock for an active reader to leave while the other
\* goroutines are readers, one of them about to call RLock.
C19_Witness ==
    \E t \in Callers :
        /\ Instr(t) = "Lock" /\ proc[t].in /\ mu.w = t /\ mu.active # {}
        /\ \A u \in Callers \ {t} : proc[u].op \in {"Contains", "Get", "GetCIDR", "Len"}

\* C21: RemoveIPOrCIDR(s) for a literal s whose prefix is stored removes that
\* entry and returns its value with a nil error; afterwards a lookup of s
\* returns only the covering entries that remain.
C21_RemoveIPOrCIDRRemoves ==
    \A s \in Literals, v \in Values :
        Denoted(s) \in Stored(table) =>
            LET w == RemoveIPOrCIDRRet(table, s, v)
            IN  /\ w.err = "nil"
                /\ w.result = ValueOf(Denoted(s))
                /\ Denoted(s) \notin Stored(w.table)
                /\ DrawnFrom(GetCIDRRet(w.table, Denoted(s)).result, table,
                             StoredCoveringPrefix(Denoted(s)) \ {Denoted(s)})

\* C22: address keys are full-length prefixes.  For every valid address a,
\* Add(a, v) has exactly the effect of AddCIDR of a's full-length prefix and
\* Remove(a) exactly the effect and result of RemoveCIDR of it, so an entry
\* added by address is removed by its full-length CIDR and the other way
\* round.
C22_AddressIsFullLengthPrefix ==
    \A a \in ValidAddrs :
        /\ RemoveRet(table, a) = RemoveCIDRRet(table, FullPrefix(a))
        /\ \A v \in Values :
              /\ AddRet(table, a, v) = AddCIDRRet(table, FullPrefix(a), v)
              /\ RemoveCIDRRet(AddRet(table, a, v).table, FullPrefix(a)).result = v
              /\ RemoveRet(AddCIDRRet(table, FullPrefix(a), v).table, a).result = v
              /\ FullPrefix(a) \notin
                    Stored(RemoveCIDRRet(AddRet(table, a, v).table, FullPrefix(a)).table)

\* A Remove by address has removed a stored entry and returned its value,
\* and full-length prefixes of both families are still stored.
C22_Witness ==
    /\ last.op = "Remove" /\ last.hit /\ last.result = "a" /\ last.err = "nil"
    /\ \A f \in {"v4", "v6"} : \E q \in Stored(table) : q.fam = f /\ q.len = BitLen(f)

\* P and Q have the same family and length and agree on their first length
\* bits.
SameKey(P, Q) ==
    /\ P.fam = Q.fam /\ P.len = Q.len
    /\ Leading(P.fam, P.bits, P.len) = Leading(Q.fam, Q.bits, Q.len)

\* C23: prefix keys are compared after zeroing the host bits.  Two prefixes
\* of the same family and length that agree on their first length bits are
\* the same key for AddCIDR, RemoveCIDR and GetCIDR: AddCIDR of one and then
\* of the other leaves one entry with the second value, and RemoveCIDR of
\* either removes it.
C23_HostBitsDoNotCount ==
    \A P, Q \in ValidPrefixes :
        (P # Q /\ SameKey(P, Q)) =>
            /\ RemoveCIDRRet(table, P) = RemoveCIDRRet(table, Q)
            /\ GetCIDRRet(table, P) = GetCIDRRet(table, Q)
            /\ \A x \in Values : \A y \in Values \ {x} :
                  LET w1 == AddCIDRRet(table, P, x).table
                      w2 == AddCIDRRet(w1, Q, y).table
                      w3 == RemoveCIDRRet(w2, P)
                  IN  /\ AddCIDRRet(table, P, x) = AddCIDRRet(table, Q, x)
                      /\ LenRet(w2) = LenRet(w1)
                      /\ Cardinality({q \in Stored(w2) : SameKey(q, P)}) = 1
                      /\ GetCIDRRet(w2, P).result = <<y>>
                      /\ w3.result = y
                      /\ \A q \in Stored(w3.table) : ~SameKey(q, P)

\* An AddCIDR has overwritten a stored prefix that can also be written with
\* host bits set, on a full store.
C23_Witness ==
    /\ last.op = "AddCIDR" /\ last.hit /\ last.err = "nil"
    /\ Cardinality(Stored(table)) = MaxEntries
    /\ \E Q \in ValidPrefixes :
          /\ Q # KeyOf(Q)
          /\ KeyOf(Q) \in Stored(table)
          /\ ValueOf(KeyOf(Q)) = "a"

\* C24: a key that is no valid prefix or address (a prefix length outside the
\* width of its family, the zero address) is reported as an error by Add,
\* AddCIDR, Remove and RemoveCIDR and the store is left as it is; such a call
\* never returns a nil error.
C24_InvalidKeyIsAnError ==
    /\ \A P \in Prefixes \ ValidPrefixes :
          /\ RemoveCIDRRet(table, P).err # "nil"
          /\ RemoveCIDRRet(table, P).table = table
          /\ \A v \in Values :
                /\ AddCIDRRet(table, P, v).err # "nil"
                /\ AddCIDRRet(table, P, v).table = table
    /\ \A a \in Addrs \ ValidAddrs :
          /\ RemoveRet(table, a).err # "nil"
          /\ RemoveRet(table, a).table = table
          /\ \A v \in Values :
                /\ AddRet(table, a, v).err # "nil"
                /\ AddRet(table, a, v).table = table

\* C25: the zero-length prefix is a valid key.  After AddCIDR(/0, v) Len
\* counts it, every address of its family is covered (Contains is true, v is
\* the last element of Get and the only one when nothing more specific covers
\* the address), GetCIDR(/0) returns v, and RemoveCIDR(/0) removes it and
\* returns v.
C25_MatchAllPrefix ==
    \A P \in ValidPrefixes, v \in Values :
        P.len = 0 =>
            LET w == AddCIDRRet(table, P, v).table
                d == RemoveCIDRRet(w, P)
            IN  /\ LenRet(w).result = Cardinality(Stored(table) \cup {KeyOf(P)})
                /\ GetCIDRRet(w, P) = [result |-> <<v>>, err |-> "nil"]
                /\ d.result = v /\ d.err = "nil" /\ KeyOf(P) \notin Stored(d.table)
                /\ \A a \in ValidAddrs :
                      a.fam = P.fam =>
                          LET r == GetRet(w, a).result
                          IN  /\ ContainsRet(w, a).result
                              /\ r # <<>>
                              /\ r[Len(r)] = v
                              /\ (StoredCoveringAddr(a) \ {KeyOf(P)} = {}) => r = <<v>>

\* C26: GetOne(address) returns the value of the single most specific stored
\* prefix covering the address, with a presence flag that is true exactly
\* when such a prefix exists; whenever Get(address) is non-empty, GetOne
\* of the address is its element at index 0.
C26_GetOneIsMostSpecific ==
    \A a \in ValidAddrs :
        LET one == GetOneRet(table, a)
            S == StoredCoveringAddr(a)
            r == GetRet(table, a).result
        IN  /\ one.ok = (S # {})
            /\ one.ok => \E q \in S : /\ \A x \in S : x.len <= q.len
                                      /\ one.result = ValueOf(q)
            /\ r # <<>> => one.ok /\ one.result = r[1]

\* GetOne has returned the non-zero value of the most specific of three
\* stored prefixes covering an address, the broader ones holding the zero
\* value.
C26_Witness ==
    /\ last.op = "GetOne" /\ last.result = <<"a", TRUE>>
    /\ \E a \in ValidAddrs :
          /\ Cardinality(StoredCoveringAddr(a)) = MaxEntries
          /\ \A q \in StoredCoveringAddr(a) : (ValueOf(q) = "a") = (q.len = BitLen(q.fam))

\* Every key a prefix can be stored under.
Keys == {KeyOf(P) : P \in ValidPrefixes}

\* The tables t1 and t2 agree on the presence and the value of the key Q.
SameAt(t1, t2, Q) ==
    /\ (Q \in Stored(t1)) = (Q \in Stored(t2))
    /\ Q \in Stored(t1) => t1.entries[Q] = t2.entries[Q]

\* C27: writes touch only their own key.  AddCIDR(P, v) and RemoveCIDR(P)
\* leave the presence and the value of every other prefix as they were, be
\* it an ancestor, a subnet or a sibling of P or a prefix of the other
\* family.
C27_WritesTouchOnlyTheirKey ==
    \A P \in ValidPrefixes :
        /\ \A v \in Values :
              LET w == AddCIDRRet(table, P, v).table
              IN  /\ Stored(w) \subseteq Keys
                  /\ \A Q \in Keys \ {KeyOf(P)} : SameAt(w, table, Q)
        /\ LET w == RemoveCIDRRet(table, P).table
           IN  /\ Stored(w) \subseteq Keys
               /\ \A Q \in Keys \ {KeyOf(P)} : SameAt(w, table, Q)

\* A RemoveCIDR has removed a stored prefix; the store still holds entries
\* of both families and a subnet of a prefix that is not stored.
C27_Witness ==
    /\ last.op = "RemoveCIDR" /\ last.hit
    /\ Cardinality(Stored(table)) = MaxEntries - 1
    /\ \A f \in {"v4", "v6"} : \E q \in Stored(table) : q.fam = f
    /\ \E P \in ValidPrefixes :
          /\ KeyOf(P) \notin Stored(table)
          /\ \E q \in Stored(table) : q # KeyOf(P) /\ CoversPrefix(KeyOf(P), q)

\* C28: reads are pure.  A Contains, Get, GetCIDR or Len step leaves the
\* stored prefixes, their values and Len as they were, so the same read made
\* again at once returns what it just returned.
C28_ReadsArePure ==
    [][last'.op \in {"Contains", "Get", "GetCIDR", "Len"} =>
          /\ table' = table
          /\ last'.op = "Len" => last'.result = LenRet(table').result
          /\ last'.op = "Contains" =>
                \E a \in Addrs : /\ last'.result = ContainsRet(table, a).result
                                 /\ last'.result = ContainsRet(table', a).result
          /\ last'.op = "Get" =>
                \E a \in Addrs : /\ last'.result = GetRet(table, a).result
                                 /\ last'.result = GetRet(table', a).result
          /\ last'.op = "GetCIDR" =>
                \E Q \in Prefixes : /\ last'.result = GetCIDRRet(table, Q).result
                                    /\ last'.result = GetCIDRRet(table', Q).result]_vars

\* A Get has returned the value of a stored address on a full store.
C28_Witness ==
    /\ last.op = "Get" /\ last.hit /\ last.result = <<"a">>
    /\ Cardinality(Stored(table)) = MaxEntries
    /\ LenRet(table).result = MaxEntries

\* C29: insertion is idempotent.  AddCIDR(P, v) made twice in a row leaves
\* the store exactly as one AddCIDR(P, v) leaves it (the same stored
\* prefixes, values and Len), and no prefix is stored twice.
C29_InsertIsIdempotent ==
    /\ \A P \in ValidPrefixes, v \in Values :
          LET w1 == AddCIDRRet(table, P, v)
              w2 == AddCIDRRet(w1.table, P, v)
          IN  /\ w2 = w1
              /\ Stored(w2.table) = Stored(table) \cup {KeyOf(P)}
              /\ LenRet(w2.table) = LenRet(w1.table)
              /\ \A q1, q2 \in Stored(w2.table) : SameKey(q1, q2) => q1 = q2
    /\ \A q1, q2 \in Stored(table) : SameKey(q1, q2) => q1 = q2

\* An AddCIDR has been made on a prefix that was already stored, on a full
\* store.
C29_Witness ==
    /\ last.op = "AddCIDR" /\ last.hit /\ last.err = "nil"
    /\ LenRet(table).result = MaxEntries
    /\ \E q \in Stored(table) : q.len < BitLen(q.fam) /\ ValueOf(q) = Zero

\* C30: add then remove is a no-op.  From a store in which P is not stored,
\* AddCIDR(P, v) followed by RemoveCIDR(P) returns v and restores the state:
\* Len and every Contains, Get and GetCIDR result are those of before the
\* add.  (The reads are compared one by one only where the table differs.)
C30_AddThenRemoveRestores ==
    \A P \in ValidPrefixes, v \in Values :
        KeyOf(P) \notin Stored(table) =>
            LET w == AddCIDRRet(table, P, v)
                d == RemoveCIDRRet(w.table, P)
            IN  /\ w.err = "nil" /\ d.err = "nil"
                /\ KeyOf(P) \in Stored(w.table)
                /\ d.result = v
                /\ d.table = table \/ SameReads(d.table, table)

\* A RemoveCIDR has removed a stored prefix and returned its non-zero value,
\* leaving a store that holds entries of both values and of both families.
C30_Witness ==
    /\ last.op = "RemoveCIDR" /\ last.hit /\ last.result = "a" /\ last.err = "nil"
    /\ Cardinality(Stored(table)) = MaxEntries - 1
    /\ {ValueOf(q) : q \in Stored(table)} = Values
    /\ {q.fam : q \in Stored(table)} = {"v4", "v6"}

\* C31: Contains and Get agree in every state of the store: for every address
\* (the zero Addr included) Contains is true exactly when Get returns a
\* non-empty list, also when the matched entry holds the zero value, and both
\* return a nil error.
C31_ContainsAgreesWithGet ==
    \A a \in Addrs :
        /\ ContainsRet(table, a).result = (GetRet(table, a).result # <<>>)
        /\ ContainsRet(table, a).err = "nil"
        /\ GetRet(table, a).err = "nil"

\* A Contains has returned true for an address whose longest covering entry
\* holds the zero value, while another address has no covering entry.
C31_Witness ==
    /\ last.op = "Contains" /\ last.result = TRUE
    /\ \E a \in ValidAddrs :
          /\ ContainsRet(table, a).result
          /\ GetRet(table, a).result = <<Zero>>
    /\ \E b \in ValidAddrs :
          /\ ~ContainsRet(table, b).result
          /\ GetRet(table, b).result = <<>>

\* The entries of one family of tbl, as a table of their own.
OnlyFamily(tbl, fam) ==
    LET S == {q \in Stored(tbl) : q.fam = fam}
    IN  [entries |-> [q \in S |-> tbl.entries[q]], size |-> Cardinality(S)]

OtherFamily(fam) == IF fam = "v4" THEN "v6" ELSE "v4"

\* C32: address families are isolated.  Get, Contains and GetCIDR on a key of
\* one family answer as they would on the store without the entries of the
\* other family, and find nothing in the store with only the entries of the
\* other family (match-all /0 prefixes and prefixes with the same leading bits
\* included); Len counts the entries of both families together.
C32_FamiliesAreIsolated ==
    /\ \A a \in ValidAddrs :
          /\ GetRet(table, a) = GetRet(OnlyFamily(table, a.fam), a)
          /\ ContainsRet(table, a) = ContainsRet(OnlyFamily(table, a.fam), a)
          /\ GetRet(OnlyFamily(table, OtherFamily(a.fam)), a).result = <<>>
          /\ ~ContainsRet(OnlyFamily(table, OtherFamily(a.fam)), a).result
    /\ \A P \in ValidPrefixes :
          /\ GetCIDRRet(table, P) = GetCIDRRet(OnlyFamily(table, P.fam), P)
          /\ GetCIDRRet(OnlyFamily(table, OtherFamily(P.fam)), P).result = <<>>
    /\ LenRet(table).result =
          Cardinality({q \in Stored(table) : q.fam = "v4"}) +
          Cardinality({q \in Stored(table) : q.fam = "v6"})

\* A Contains has returned false for an IPv4 address while the store holds the
\* IPv6 match-all prefix, a longer IPv6 prefix with the leading bits of that
\* address and an IPv4 entry for another address, and Len is 3.
C32_Witness ==
    /\ last.op = "Contains" /\ last.result = FALSE
    /\ LenRet(table).result = 3
    /\ [fam |-> "v6", bits |-> 0, len |-> 0] \in Stored(table)
    /\ \E a \in ValidAddrs :
          /\ a.fam = "v4"
          /\ ~ContainsRet(table, a).result
          /\ \E q \in Stored(table) :
                /\ q.fam = "v6" /\ q.len > 0 /\ q.len <= BitLen("v4")
                /\ Leading("v6", q.bits, q.len) = Leading("v4", a.bits, q.len)
          /\ \E q \in Stored(table) : q.fam = "v4"

\* The statements of kind S that goroutine t has behind it in its call.
Passed(t, S) == {i \in 1 .. (proc[t].pc - 1) : Body(proc[t].op)[i] \in S}

\* Goroutine t holds the lock: as the writer, or as a reader that is past
\* its RLock.
Holds(t) ==
    \/ mu.w = t /\ mu.locked
    \/ t \in mu.active /\ Instr(t) # "RLock"

\* The call goroutine t is in takes the lock once and gives it back as its
\* last statement: t never has a second acquisition behind it, holds the lock
\* exactly from its acquisition to its release, and is at the release, with
\* one acquisition behind it, when it is about to return.
LockedOnce(t) ==
    /\ Cardinality(Passed(t, {"Lock", "RLock"})) <= 1
    /\ Holds(t) <=> (Passed(t, {"Lock", "RLock"}) # {} /\ Passed(t, {"Unlock", "RUnlock"}) = {})
    /\ proc[t].pc = Len(Body(proc[t].op)) =>
          /\ Instr(t) \in {"Unlock", "RUnlock"}
          /\ Cardinality(Passed(t, {"Lock", "RLock"})) = 1
          /\ Holds(t)

\* C33: every Store operation acquires the lock exactly once and releases it
\* before it returns, on every path (the not-found returns of RemoveCIDR, Get
\* and GetCIDR included, whose release is deferred); a goroutine that is in no
\* call holds and awaits nothing, and when no operation is in progress the
\* lock has no writer and no reader.
C33_LockTakenOnceAndReleased ==
    /\ \A t \in Callers :
          IF proc[t] = Idle
          THEN t \notin mu.active \cup mu.blocked /\ mu.w # t
          ELSE LockedOnce(t)
    /\ (\A t \in Callers : proc[t] = Idle) => mu = FreeMutex

\* C34: readers proceed in parallel.  A goroutine that calls RLock while no
\* writer holds or waits for the lock is admitted at once, however many
\* readers hold the lock already, and a reader is parked only behind a writer;
\* so several of Contains, Get, GetCIDR and Len are inside their critical
\* sections at the same time.
C34_ReadersProceedInParallel ==
    \A t \in Callers :
        /\ (Instr(t) = "RLock" /\ ~proc[t].in /\ mu.w = None) =>
              ENABLED (/\ RLock(t)
                       /\ mu'.active = mu.active \cup {t}
                       /\ proc'[t].pc = proc[t].pc + 1)
        /\ t \in mu.blocked => mu.w \notin {None, t}

\* A Contains and a Len are inside their table calls at the same time, both
\* holding the lock as readers, and no writer waits.
C34_Witness ==
    \E t, u \in Callers :
        /\ t # u
        /\ proc[t].op = "Contains" /\ proc[u].op = "Len"
        /\ InTable(t) /\ InTable(u)
        /\ {t, u} \subseteq mu.active
        /\ mu.w = None

====
